---- MODULE Spec2Model ----
(***************************************************************************)
(* Model of poc-07.py: a two-sided, state-based synchronisation engine.    *)
(*                                                                         *)
(* Python objects are references.  A Message placed in a driver, appended  *)
(* to a delta or to a state backend is the SAME object in all of them, and *)
(* "message.flags = newMessage.flags" makes two messages share ONE dict.   *)
(* The model therefore keeps a heap of Message objects (heap) and a heap   *)
(* of flag dicts (dicts); every list is a sequence of object ids.          *)
(***************************************************************************)
EXTENDS Integers, Sequences, FiniteSets, TLC

MaxCycles == 3  \* number of Engine.run() calls explored
MaxEdits == 2   \* number of user mutations of the stores explored

VARIABLES heap, dicts, leftDriver, rightDriver, leftState, rightState,
          leftMessages, rightMessages, pc, failed, calls, cycles, edits,
          begun, settled, dirty, deleted

vars == <<heap, dicts, leftDriver, rightDriver, leftState, rightState,
          leftMessages, rightMessages, pc, failed, calls, cycles, edits,
          begun, settled, dirty, deleted>>

Sides == {"left", "right"}

----------------------------------------------------------------------------
(* class Message *)

\* Message.__init__: the flags argument is ignored, both flags start False.
Message(uid, body, d) == [uid |-> uid, body |-> body, flags |-> d]

NewFlags == [read |-> FALSE, important |-> FALSE]

\* Message.__eq__: self.uid == other, which Python resolves through the
\* reflected comparison to a comparison of the two uids.
MessageEq(h, a, b) == h[a].uid = h[b].uid

\* Message.identical: uid, body and flags (dicts compare by value).
identical(h, ds, self, mess) ==
    IF h[mess].uid # h[self].uid THEN FALSE
    ELSE IF h[mess].body # h[self].body THEN FALSE
    ELSE IF ds[h[mess].flags] # ds[h[self].flags] THEN FALSE
    ELSE TRUE

\* "x in messages" on a UserList: some element is equal to x.
Contains(h, messages, x) == \E i \in DOMAIN messages : MessageEq(h, messages[i], x)

\* The value of a record as an observer reads it.
Val(h, ds, o) == [uid |-> h[o].uid, body |-> h[o].body,
                  read |-> ds[h[o].flags].read,
                  important |-> ds[h[o].flags].important]

Vals(h, ds, messages) == [i \in DOMAIN messages |-> Val(h, ds, messages[i])]

Uids(h, messages) == {h[messages[i]].uid : i \in DOMAIN messages}

NoDuplicates(h, messages) ==
    \A i, j \in DOMAIN messages : h[messages[i]].uid = h[messages[j]].uid => i = j

----------------------------------------------------------------------------
(* class Storage *)

\* An update that returns without appending an unknown message.
updateDropsNew(h, messages, newMessage) ==
    IF ~Contains(h, messages, newMessage)
    THEN [heap |-> h, messages |-> messages]
    ELSE LET i == CHOOSE k \in DOMAIN messages :
                    /\ h[messages[k]].uid = h[newMessage].uid
                    /\ \A j \in 1..(k-1) : h[messages[j]].uid # h[newMessage].uid
             m == messages[i]
         IN [heap |-> [h EXCEPT ![m] = [uid |-> h[m].uid,
                                        body |-> h[newMessage].body,
                                        flags |-> h[newMessage].flags]],
             messages |-> messages]

\* An update that overwrites the body of a known message but not its flags.
updateKeepsFlags(h, messages, newMessage) ==
    IF ~Contains(h, messages, newMessage)
    THEN [heap |-> h, messages |-> Append(messages, newMessage)]
    ELSE LET i == CHOOSE k \in DOMAIN messages :
                    /\ h[messages[k]].uid = h[newMessage].uid
                    /\ \A j \in 1..(k-1) : h[messages[j]].uid # h[newMessage].uid
             m == messages[i]
         IN [heap |-> [h EXCEPT ![m] = [uid |-> h[m].uid,
                                        body |-> h[newMessage].body,
                                        flags |-> h[m].flags]],
             messages |-> messages]

\* An update that replaces a known message by the new one at the end of the
\* list instead of overwriting it in place.
updateMovesToEnd(h, messages, newMessage) ==
    IF ~Contains(h, messages, newMessage)
    THEN [heap |-> h, messages |-> Append(messages, newMessage)]
    ELSE [heap |-> h,
          messages |-> Append(SelectSeq(messages,
                                        LAMBDA m : h[m].uid # h[newMessage].uid),
                              newMessage)]

\* An update that takes a known message out of the list.
updateRemovesKnown(h, messages, newMessage) ==
    IF ~Contains(h, messages, newMessage)
    THEN [heap |-> h, messages |-> Append(messages, newMessage)]
    ELSE [heap |-> h,
          messages |-> SelectSeq(messages, LAMBDA m : h[m].uid # h[newMessage].uid)]

\* Storage.update: append the object itself when its uid is unknown, else
\* overwrite body and flags (the dict reference) of the first match.
update(h, messages, newMessage) ==
    IF ~Contains(h, messages, newMessage)
    THEN [heap |-> h, messages |-> Append(messages, newMessage)]
    ELSE LET i == CHOOSE k \in DOMAIN messages :
                    /\ h[messages[k]].uid = h[newMessage].uid
                    /\ \A j \in 1..(k-1) : h[messages[j]].uid # h[newMessage].uid
             m == messages[i]
         IN [heap |-> [h EXCEPT ![m] = [uid |-> h[m].uid,
                                        body |-> h[newMessage].body,
                                        flags |-> h[newMessage].flags]],
             messages |-> messages]

----------------------------------------------------------------------------
(* class StateController *)

\* StateController.update: for each message of the delta, update our driver
\* and then their state backend.
RECURSIVE StateController_update(_, _, _, _, _)
StateController_update(h, driver, theirState, theirMessages, k) ==
    IF k > Len(theirMessages)
    THEN [heap |-> h, driver |-> driver, theirState |-> theirState]
    ELSE LET a == update(h, driver, theirMessages[k])
             b == update(a.heap, theirState, theirMessages[k])
         IN StateController_update(b.heap, a.messages, b.messages,
                                   theirMessages, k + 1)

\* A merge that appends every message of their state.
MergeStateAll(h, stateMessages, theirs, k) == stateMessages \o theirs

\* getChanges, first loop: every message of their state that is not in our
\* state yet is appended to OUR state list (search() returns the list itself).
RECURSIVE MergeState(_, _, _, _)
MergeState(h, stateMessages, theirs, k) ==
    IF k > Len(theirs) THEN stateMessages
    ELSE MergeState(h,
                    IF Contains(h, stateMessages, theirs[k]) THEN stateMessages
                    ELSE Append(stateMessages, theirs[k]),
                    theirs, k + 1)

\* getChanges, second loop: a message of the driver is a change when it is
\* not in the state, or when a state message of its uid is not identical.
IsChanged(h, ds, stateMessages, message) ==
    \/ ~Contains(h, stateMessages, message)
    \/ \E j \in DOMAIN stateMessages :
          /\ h[message].uid = h[stateMessages[j]].uid
          /\ ~identical(h, ds, message, stateMessages[j])

RECURSIVE ChangedOf(_, _, _, _, _)
ChangedOf(h, ds, stateMessages, messages, k) ==
    IF k > Len(messages) THEN <<>>
    ELSE (IF IsChanged(h, ds, stateMessages, messages[k])
          THEN <<messages[k]>> ELSE <<>>)
         \o ChangedOf(h, ds, stateMessages, messages, k + 1)

\* getChanges, third loop: one entry per state message missing from the
\* driver.
MissingOf(h, stateMessages, messages) ==
    SelectSeq(stateMessages, LAMBDA s : ~Contains(h, messages, s))

\* A getChanges that records in its state the messages it reports as new.
getChangesCommits(h, ds, driver, state, theirState) ==
    LET stateMessages == MergeState(h, state, theirState, 1)
        changed == ChangedOf(h, ds, stateMessages, driver, 1)
        missing == MissingOf(h, stateMessages, driver)
        bound == Len(driver) > 0 \/ Len(theirState) > 0
        message == IF Len(driver) > 0 THEN driver[Len(driver)]
                   ELSE theirState[Len(theirState)]
    IN [state |-> MergeState(h, stateMessages, changed, 1),
        raised |-> Len(missing) > 0 /\ ~bound,
        changedMessages |->
            IF Len(missing) > 0 /\ bound
            THEN changed \o [i \in 1..Len(missing) |-> message]
            ELSE changed]

\* StateController.getChanges.  The third loop appends the variable
\* "message", which is what the earlier loops left in it: the last message of
\* the driver, else the last message of their state, else it is unbound and
\* the call raises.
getChanges(h, ds, driver, state, theirState) ==
    LET stateMessages == MergeState(h, state, theirState, 1)
        changed == ChangedOf(h, ds, stateMessages, driver, 1)
        missing == MissingOf(h, stateMessages, driver)
        bound == Len(driver) > 0 \/ Len(theirState) > 0
        message == IF Len(driver) > 0 THEN driver[Len(driver)]
                   ELSE theirState[Len(theirState)]
    IN [state |-> stateMessages,
        raised |-> Len(missing) > 0 /\ ~bound,
        changedMessages |->
            IF Len(missing) > 0 /\ bound
            THEN changed \o [i \in 1..Len(missing) |-> message]
            ELSE changed]

----------------------------------------------------------------------------
(* Object lifetime *)

Range(messages) == {messages[i] : i \in DOMAIN messages}

\* A Message that no list refers to any more is freed, and so is a flags dict
\* that no Message refers to.
LiveMessages(h, lists) ==
    [o \in {x \in DOMAIN h : \E i \in DOMAIN lists : x \in Range(lists[i])} |-> h[o]]

LiveDicts(h, ds) == [d \in {h[o].flags : o \in DOMAIN h} |-> ds[d]]

----------------------------------------------------------------------------
(* Observations kept for the properties *)

\* The content of the two stores, as Engine.debug prints it.
Snapshot(h, ds, l, r) == [left |-> Vals(h, ds, l), right |-> Vals(h, ds, r)]

\* The content of the two stores and of the two state backends.
Content(h, ds, l, r, ls, rs) ==
    [left |-> Vals(h, ds, l), right |-> Vals(h, ds, r),
     leftState |-> Vals(h, ds, ls), rightState |-> Vals(h, ds, rs)]

SnapUids(vs) == {vs[i].uid : i \in DOMAIN vs}

----------------------------------------------------------------------------
(* Initial states *)

\* __main__ builds m1l, m2l for the left and m1r, m2r, m3r for the right.
LeftUids == {1, 2}
RightUids == {1, 2, 3}

BodyOf(u) == <<"1 body", "2 body", "3 body">>[u]

LeftObj(u) == 2 * u - 1
RightObj(u) == 2 * u

InitCommon ==
    /\ leftState = <<>>          \* Engine.__init__: StateDriver([])
    /\ rightState = <<>>
    /\ leftMessages = <<>>
    /\ rightMessages = <<>>
    /\ pc = 0
    /\ failed = FALSE
    /\ calls = <<>>
    /\ cycles = 0
    /\ edits = 0
    /\ dirty = FALSE
    /\ deleted = {}
    /\ begun = Snapshot(heap, dicts, leftDriver, rightDriver)
    /\ settled = begun

\* The drivers filled with pre-existing data.  lp tells which of the left
\* messages are in the left store; rp tells which of the right messages are
\* in the right store, and with which body: the body of __main__ or, where
\* the left holds the uid, another one.  Both flags of a new Message are False.
InitStores(lp, rp) ==
    LET lobjs == {LeftObj(u) : u \in {v \in LeftUids : lp[v]}}
        robjs == {RightObj(u) : u \in {v \in RightUids : rp[v] # ""}}
    IN /\ heap = [o \in lobjs \cup robjs |->
                    IF o \in lobjs THEN Message((o + 1) \div 2, BodyOf((o + 1) \div 2), o)
                    ELSE Message(o \div 2,
                                 IF rp[o \div 2] = "same" THEN BodyOf(o \div 2)
                                 ELSE rp[o \div 2], o)]
       /\ dicts = [o \in lobjs \cup robjs |-> NewFlags]
       /\ leftDriver = SelectSeq([u \in 1..2 |-> LeftObj(u)], LAMBDA o : o \in lobjs)
       /\ rightDriver = SelectSeq([u \in 1..3 |-> RightObj(u)], LAMBDA o : o \in robjs)

\* Any stores made of the messages of __main__.
Init ==
    /\ \E lp \in [LeftUids -> BOOLEAN], rp \in [RightUids -> {"", "same", "other body"}] :
          /\ \A u \in RightUids : rp[u] = "other body" => (u \in LeftUids /\ lp[u])
          /\ InitStores(lp, rp)
    /\ InitCommon

\* __main__: leftMessages = [m1l, m2l], rghtMessages = [m1r, m2r, m3r].
InitMain ==
    /\ InitStores([u \in LeftUids |-> TRUE], [u \in RightUids |-> "same"])
    /\ InitCommon

----------------------------------------------------------------------------
(* Engine.run, one action per call it makes *)

\* A run that applies to the left before the right delta is computed.
RunOrderEarlyApply ==
    <<"left.getChanges", "left.update", "right.getChanges", "right.update">>

\* The calls of Engine.run, in program order.
RunOrder == <<"left.getChanges", "right.getChanges", "left.update", "right.update">>

DriverOf(side) == IF side = "left" THEN leftDriver ELSE rightDriver

\* Records synchronised to both sides that this side's store no longer holds.
NewlyDeleted ==
    IF cycles = 0 THEN {}
    ELSE {x \in [side : Sides,
                 uid : SnapUids(settled.left) \cap SnapUids(settled.right),
                 cycle : {cycles}] :
            x.uid \notin Uids(heap, DriverOf(x.side))}

\* One call of Engine.run: pc is the number of calls of the running cycle
\* that have returned, 0 between two runs.  An exception ends the program.
Call(name, h, l, r, ls, rs, lm, rm, err) ==
    LET done == ~err /\ pc + 1 = Len(RunOrder)
        lm2 == IF done THEN <<>> ELSE lm      \* the locals end with the run
        rm2 == IF done THEN <<>> ELSE rm
        h2 == LiveMessages(h, <<l, r, ls, rs, lm2, rm2>>)
        ds2 == LiveDicts(h2, dicts)
    IN /\ ~failed
       /\ RunOrder[pc + 1] = name
       /\ pc = 0 => cycles < MaxCycles
       /\ heap' = h2
       /\ dicts' = ds2
       /\ leftDriver' = l
       /\ rightDriver' = r
       /\ leftState' = ls
       /\ rightState' = rs
       /\ leftMessages' = lm2
       /\ rightMessages' = rm2
       /\ failed' = err
       /\ calls' = IF pc = 0 THEN <<name>> ELSE Append(calls, name)
       /\ begun' = IF pc = 0
                   THEN Snapshot(heap, dicts, leftDriver, rightDriver)
                   ELSE begun
       /\ deleted' = IF pc = 0 THEN deleted \cup NewlyDeleted ELSE deleted
       /\ IF done
          THEN /\ pc' = 0
               /\ cycles' = cycles + 1
               /\ settled' = Snapshot(h2, ds2, l, r)
               /\ dirty' = FALSE
          ELSE /\ pc' = pc + 1
               /\ UNCHANGED <<cycles, settled, dirty>>
       /\ UNCHANGED edits

\* The deltas are locals of run(): a new run starts without them.
LocalLeft == IF pc = 0 THEN <<>> ELSE leftMessages
LocalRight == IF pc = 0 THEN <<>> ELSE rightMessages

\* leftMessages = self.left.getChanges()
RunGetChangesLeft ==
    LET g == getChanges(heap, dicts, leftDriver, leftState, rightState)
    IN Call("left.getChanges", heap, leftDriver, rightDriver, g.state, rightState,
            IF g.raised THEN LocalLeft ELSE g.changedMessages, LocalRight, g.raised)

\* rightMessages = self.right.getChanges()
RunGetChangesRight ==
    LET g == getChanges(heap, dicts, rightDriver, rightState, leftState)
    IN Call("right.getChanges", heap, leftDriver, rightDriver, leftState, g.state,
            LocalLeft, IF g.raised THEN LocalRight ELSE g.changedMessages, g.raised)

\* self.left.update(rightMessages): left driver, right state backend.
RunUpdateLeft ==
    LET u == StateController_update(heap, leftDriver, rightState, LocalRight, 1)
    IN Call("left.update", u.heap, u.driver, rightDriver, leftState, u.theirState,
            LocalLeft, LocalRight, FALSE)

\* self.right.update(leftMessages): right driver, left state backend.
RunUpdateRight ==
    LET u == StateController_update(heap, rightDriver, leftState, LocalLeft, 1)
    IN Call("right.update", u.heap, leftDriver, u.driver, u.theirState, rightState,
            LocalLeft, LocalRight, FALSE)

----------------
(* The user of the stores, between two runs *)

\* A call that finds the flag already set to the value changes nothing; the
\* user's mutations are the calls that change a flag.
SetFlag(side, i, flag, value) ==
    /\ pc = 0
    /\ ~failed
    /\ edits < MaxEdits
    /\ dicts[heap[DriverOf(side)[i]].flags][flag] # value
    /\ dicts' = [dicts EXCEPT ![heap[DriverOf(side)[i]].flags][flag] = value]
    /\ edits' = edits + 1
    /\ dirty' = TRUE
    /\ UNCHANGED <<heap, leftDriver, rightDriver, leftState, rightState,
                   leftMessages, rightMessages, pc, failed, calls, cycles,
                   begun, settled, deleted>>

markImportant == \E side \in Sides : \E i \in DOMAIN DriverOf(side) : SetFlag(side, i, "important", TRUE)

markRead == \E side \in Sides : \E i \in DOMAIN DriverOf(side) : SetFlag(side, i, "read", TRUE)

unmarkImportant == \E side \in Sides : \E i \in DOMAIN DriverOf(side) : SetFlag(side, i, "important", FALSE)

unmarkRead == \E side \in Sides : \E i \in DOMAIN DriverOf(side) : SetFlag(side, i, "read", FALSE)

RemoveAt(messages, i) == [k \in 1..(Len(messages) - 1) |->
                            IF k < i THEN messages[k] ELSE messages[k + 1]]

\* A message disappears from one store (removed in the real repository).
remove ==
    /\ pc = 0
    /\ ~failed
    /\ edits < MaxEdits
    /\ \E side \in Sides : \E i \in DOMAIN DriverOf(side) :
          /\ IF side = "left"
             THEN leftDriver' = RemoveAt(leftDriver, i) /\ UNCHANGED rightDriver
             ELSE rightDriver' = RemoveAt(rightDriver, i) /\ UNCHANGED leftDriver
          /\ heap' = LiveMessages(heap, <<leftDriver', rightDriver', leftState,
                                         rightState, leftMessages, rightMessages>>)
          /\ dicts' = LiveDicts(heap', dicts)
    /\ edits' = edits + 1
    /\ dirty' = TRUE
    /\ UNCHANGED <<leftState, rightState, leftMessages, rightMessages,
                   pc, failed, calls, cycles, begun, settled, deleted>>

Next ==
    \/ RunGetChangesLeft
    \/ RunGetChangesRight
    \/ RunUpdateLeft
    \/ RunUpdateRight
    \/ markImportant
    \/ markRead
    \/ unmarkImportant
    \/ unmarkRead
    \/ remove

Spec == Init /\ [][Next]_vars

SpecMain == InitMain /\ [][Next]_vars

----------------------------------------------------------------------------
(* Positions of a run *)

GetChangesCalls == {"left.getChanges", "right.getChanges"}
UpdateCalls == {"left.update", "right.update"}

\* The calls of the running cycle that have returned.
Returned == IF pc = 0 THEN <<>> ELSE calls

BothComputed(cs) == \A g \in GetChangesCalls : \E j \in DOMAIN cs : cs[j] = g

\* Both getChanges of the running cycle have returned, no update has started.
AtComputed == ~failed /\ pc # 0 /\ BothComputed(calls)
                 /\ \A j \in DOMAIN calls : calls[j] \in GetChangesCalls

\* A run has just returned.
AtRunEnd == ~failed /\ pc = 0 /\ cycles >= 1 /\ ~dirty

LeftVals == Vals(heap, dicts, leftDriver)
RightVals == Vals(heap, dicts, rightDriver)
LeftStateVals == Vals(heap, dicts, leftState)
RightStateVals == Vals(heap, dicts, rightState)

----------------------------------------------------------------------------
(* C1 *)

C1_Order ==
    \A i \in DOMAIN calls :
        calls[i] \in UpdateCalls =>
            \A g \in GetChangesCalls : \E j \in 1..(i - 1) : calls[j] = g

C1_NoWrite ==
    (calls' # calls /\ ~BothComputed(Returned)) =>
        /\ Vals(heap', dicts', leftDriver') = LeftVals
        /\ Vals(heap', dicts', rightDriver') = RightVals

\* C1: in every run both getChanges calls have returned before the first
\* update call starts, and no step of the run up to the return of the second
\* getChanges changes the content of a driver.
C1_DeltasBeforeApply == [](C1_Order) /\ [][C1_NoWrite]_vars

\* The first update of a run has written the left driver.
C1_Witness ==
    /\ ~failed
    /\ pc = 3
    /\ calls[3] = "left.update"
    /\ Len(rightMessages) > 0
    /\ LeftVals # begun.left

----------------------------------------------------------------------------
(* C2 *)

NoDuplicateVals(vs) == \A i, j \in DOMAIN vs : vs[i].uid = vs[j].uid => i = j

\* Records of the same uid in the two sequences are full-equal.
OverlapIdentical(ls, rs) ==
    \A i \in DOMAIN ls, j \in DOMAIN rs : ls[i].uid = rs[j].uid => ls[i] = rs[j]

\* The first run has just returned; begun holds the two initial stores.
AfterFirstRun == AtRunEnd /\ cycles = 1

C2_Precondition ==
    /\ NoDuplicateVals(begun.left)
    /\ NoDuplicateVals(begun.right)
    /\ OverlapIdentical(begun.left, begun.right)

\* C2: when the initial stores have no duplicate uid and their common uids
\* carry identical records, then after the first run both drivers hold the
\* same uids and the two records of every uid are full-equal.
C2_Convergence ==
    (AfterFirstRun /\ C2_Precondition) =>
        /\ SnapUids(LeftVals) = SnapUids(RightVals)
        /\ OverlapIdentical(LeftVals, RightVals)

\* A first run over stores that share a read record, one holding a record
\* of its own.
C2_Witness ==
    /\ AfterFirstRun
    /\ C2_Precondition
    /\ \E i \in DOMAIN begun.left :
          begun.left[i].read /\ begun.left[i].uid \in SnapUids(begun.right)
    /\ SnapUids(begun.left) # SnapUids(begun.right)
    /\ LeftVals # begun.left \/ RightVals # begun.right

----------------------------------------------------------------------------
(* C9 *)

Rec(u, b, rd) == [uid |-> u, body |-> b, read |-> rd, important |-> FALSE]

\* Left = {1, 2 unread}, Right = {1, 2 read, 3}.
ScenarioStart ==
    /\ begun.left = <<Rec(1, "1 body", FALSE), Rec(2, "2 body", FALSE)>>
    /\ begun.right = <<Rec(1, "1 body", FALSE), Rec(2, "2 body", TRUE),
                       Rec(3, "3 body", FALSE)>>

\* Left = {1, 2 read}, Right = {1, 2 unread, 3}.
MirroredStart ==
    /\ begun.left = <<Rec(1, "1 body", FALSE), Rec(2, "2 body", TRUE)>>
    /\ begun.right = <<Rec(1, "1 body", FALSE), Rec(2, "2 body", FALSE),
                       Rec(3, "3 body", FALSE)>>

RecordsOf(vs, u) == {vs[i] : i \in {k \in DOMAIN vs : vs[k].uid = u}}

\* C9: from empty state backends, one run over Left = {1, 2 unread} and
\* Right = {1, 2 read, 3} leaves uids {1, 2, 3} in both drivers, record 2
\* read on both sides and record 3 on the left; over the mirrored stores it
\* leaves uids {1, 2, 3} on both sides and the two records 2 equal.
C9_Scenario ==
    /\ (AfterFirstRun /\ ScenarioStart) =>
          /\ SnapUids(LeftVals) = {1, 2, 3}
          /\ SnapUids(RightVals) = {1, 2, 3}
          /\ Len(leftDriver) = 3
          /\ Len(rightDriver) = 3
          /\ RecordsOf(LeftVals, 2) = {Rec(2, "2 body", TRUE)}
          /\ RecordsOf(RightVals, 2) = {Rec(2, "2 body", TRUE)}
          /\ RecordsOf(LeftVals, 3) = {Rec(3, "3 body", FALSE)}
    /\ (AfterFirstRun /\ MirroredStart) =>
          /\ SnapUids(LeftVals) = {1, 2, 3}
          /\ SnapUids(RightVals) = {1, 2, 3}
          /\ Len(leftDriver) = 3
          /\ Len(rightDriver) = 3
          /\ RecordsOf(LeftVals, 2) = RecordsOf(RightVals, 2)

\* The run of the scenario has returned and has changed the left store.
C9_Witness == AfterFirstRun /\ ScenarioStart /\ LeftVals # begun.left

\* The run of the mirrored scenario has returned.
C9_MirroredReached == AfterFirstRun /\ MirroredStart /\ LeftVals # begun.left

----------------------------------------------------------------------------
(* C3 *)

\* A run that follows a completed run with no store mutation in between.
InFollowingRun == cycles >= 1 /\ ~dirty /\ pc # 0

\* C3: a run that follows a completed run, with no store mutation in
\* between, computes two empty deltas (and neither getChanges raises).
C3_Quiescence ==
    InFollowingRun =>
        /\ ~failed
        /\ AtComputed => (leftMessages = <<>> /\ rightMessages = <<>>)

----------------------------------------------------------------------------
(* C4 *)

\* This step is a getChanges call of the run.
GetChangesStep == calls' # calls /\ calls'[Len(calls')] \in GetChangesCalls

\* C4: a getChanges call leaves the content of both drivers and of both
\* state backends as it was.
C4_PureRead ==
    [][GetChangesStep =>
          Content(heap', dicts', leftDriver', rightDriver', leftState', rightState')
            = Content(heap, dicts, leftDriver, rightDriver, leftState, rightState)]_vars

----------------------------------------------------------------------------
(* C5 *)

FlagsOf(v) == <<v.read, v.important>>

\* Records of store held by both sides at the end of the last run whose
\* flags are no longer the flags this side had then.
LocallyChanged(store, was) ==
    {store[i] : i \in {k \in DOMAIN store :
        /\ store[k].uid \in SnapUids(settled.left) \cap SnapUids(settled.right)
        /\ \E j \in DOMAIN was : /\ was[j].uid = store[k].uid
                                 /\ FlagsOf(was[j]) # FlagsOf(store[k])}}

\* The getChanges of that name is the last call that was made, in a run that
\* follows a completed run.
JustCalled(name) == cycles >= 1 /\ pc # 0 /\ calls[Len(calls)] = name

DeltaHas(delta, v) == \E k \in DOMAIN delta : Val(heap, dicts, delta[k]) = v

\* C5: a record held by both sides after a run, whose flags were then
\* changed in one store, is in the delta of that side's next getChanges,
\* with the new flags.
C5_ChangeDetected ==
    /\ JustCalled("left.getChanges") =>
          \A v \in LocallyChanged(LeftVals, settled.left) :
              ~failed /\ DeltaHas(leftMessages, v)
    /\ JustCalled("right.getChanges") =>
          \A v \in LocallyChanged(RightVals, settled.right) :
              ~failed /\ DeltaHas(rightMessages, v)

----------------------------------------------------------------------------
(* C6 *)

Other(side) == IF side = "left" THEN "right" ELSE "left"

\* C6: a record held by both sides after a run and then removed from one
\* store is no longer in the other store when the next run returns, and is
\* in neither state backend once a further run has returned.
C6_DeletionPropagates ==
    \A d \in deleted :
        /\ (AtRunEnd /\ cycles = d.cycle + 1) =>
              d.uid \notin Uids(heap, DriverOf(Other(d.side)))
        /\ (AtRunEnd /\ cycles >= d.cycle + 2) =>
              d.uid \notin Uids(heap, leftState) \cup Uids(heap, rightState)

----------------------------------------------------------------------------
(* C7 *)

\* The number of entries the delta of store S against baseline B holds for
\* uid u: one for a creation, an update or a deletion, none otherwise.
ExpectedEntries(S, B, u) ==
    IF u \in SnapUids(S)
    THEN IF u \notin SnapUids(B) \/ RecordsOf(S, u) # RecordsOf(B, u) THEN 1 ELSE 0
    ELSE IF u \in SnapUids(B) THEN 1 ELSE 0

EntriesFor(delta, u) == Cardinality({k \in DOMAIN delta : delta[k].uid = u})

\* delta is exactly the delta of S against B.
IsDeltaOf(delta, S, B) ==
    /\ \A u \in SnapUids(S) \cup SnapUids(B) \cup SnapUids(delta) :
          EntriesFor(delta, u) = ExpectedEntries(S, B, u)
    /\ \A k \in DOMAIN delta :
          delta[k].uid \in SnapUids(S) => delta[k] \in RecordsOf(S, delta[k].uid)

DeltaAsClaimed(name, delta, S, B) ==
    (calls' # calls /\ calls'[Len(calls')] = name
        /\ NoDuplicateVals(S) /\ NoDuplicateVals(B)) =>
            ~failed' /\ IsDeltaOf(delta, S, B)

\* C7: getChanges returns normally, and returns exactly the records of the
\* store that are new to or differ from the baseline, plus one entry of that
\* uid for each record of the baseline missing from the store.  The baseline
\* is the state list the call diffs against (stateMessages).
C7_DeltaContent ==
    [][/\ DeltaAsClaimed("left.getChanges", Vals(heap', dicts', leftMessages'),
                         LeftVals, Vals(heap', dicts', leftState'))
       /\ DeltaAsClaimed("right.getChanges", Vals(heap', dicts', rightMessages'),
                         RightVals, Vals(heap', dicts', rightState'))]_vars

----------------------------------------------------------------------------
(* C8 *)

\* left.update(rightMessages) and then right.update(leftMessages).
LeftThenRight ==
    LET a == StateController_update(heap, leftDriver, rightState, rightMessages, 1)
        b == StateController_update(a.heap, rightDriver, leftState, leftMessages, 1)
    IN Content(b.heap, dicts, a.driver, b.driver, b.theirState, a.theirState)

\* right.update(leftMessages) and then left.update(rightMessages).
RightThenLeft ==
    LET a == StateController_update(heap, rightDriver, leftState, leftMessages, 1)
        b == StateController_update(a.heap, leftDriver, rightState, rightMessages, 1)
    IN Content(b.heap, dicts, b.driver, a.driver, a.theirState, b.theirState)

\* C8: once both deltas of a run are computed, applying them in either order
\* ends in the same content of both drivers and both state backends.
C8_OrderIndependent == AtComputed => LeftThenRight = RightThenLeft

----------------------------------------------------------------------------
(* C10 *)

\* The state backend holds exactly the uids of the driver, each record
\* full-equal to the driver's.
Mirrors(stateVals, driverVals) ==
    /\ SnapUids(stateVals) = SnapUids(driverVals)
    /\ OverlapIdentical(stateVals, driverVals)

\* C10: when a run returns, each side's own state backend holds exactly the
\* uids of that side's driver, each record full-equal to the driver's.
C10_BaselineSettled ==
    AtRunEnd => (Mirrors(LeftStateVals, LeftVals) /\ Mirrors(RightStateVals, RightVals))

----------------------------------------------------------------------------
(* C11 *)

\* This step is a flag mutation by the user of a store, between two runs.
FlagStep == edits' # edits /\ leftDriver' = leftDriver /\ rightDriver' = rightDriver

\* The positions at which two sequences of records of the same length differ.
ChangedAt(before, after) == {i \in DOMAIN before : before[i] # after[i]}

\* C11: a flag mutation between two runs changes one record of one store;
\* the peer's store and both state backends keep their content.
C11_SnapshotIsolation ==
    [][FlagStep =>
          /\ Cardinality(ChangedAt(LeftVals, Vals(heap', dicts', leftDriver')))
               + Cardinality(ChangedAt(RightVals, Vals(heap', dicts', rightDriver'))) = 1
          /\ Vals(heap', dicts', leftState') = LeftStateVals
          /\ Vals(heap', dicts', rightState') = RightStateVals]_vars

----------------------------------------------------------------------------
(* C12 *)

\* The uids both stores held when the last run returned and neither store
\* held when the running cycle began: synchronised, then removed from both.
RemovedFromBoth ==
    (SnapUids(settled.left) \cap SnapUids(settled.right))
        \ (SnapUids(begun.left) \cup SnapUids(begun.right))

\* C12: a record that was synchronised to both sides and then removed from
\* both stores is in neither driver at any point of the following run.
C12_NoResurrection ==
    (cycles >= 1 /\ pc # 0) =>
        \A u \in RemovedFromBoth :
            u \notin Uids(heap, leftDriver) \cup Uids(heap, rightDriver)

----------------------------------------------------------------------------
(* New messages: uid None *)

\* Message.__init__(uid=None): the uid of a message that has none yet.  None
\* compares equal to None and to no number.
None == 0

\* m4l = Message(None, "4 body"), not at right; with it, a second new message
\* of the left store and a new message of the right store.
NewLeftObjs == {7, 9}
NewRightObjs == {8}

NewBody(o) == IF o = 7 THEN "4 body" ELSE IF o = 9 THEN "5 body" ELSE "6 body"

\* Stores made of m1l, m1r and the new messages, at least one of them new.
InitNone ==
    /\ \E lobjs \in SUBSET ({LeftObj(1)} \cup NewLeftObjs),
          robjs \in SUBSET ({RightObj(1)} \cup NewRightObjs) :
          /\ (lobjs \cup robjs) \cap (NewLeftObjs \cup NewRightObjs) # {}
          /\ heap = [o \in lobjs \cup robjs |->
                       IF o \in NewLeftObjs \cup NewRightObjs
                       THEN Message(None, NewBody(o), o)
                       ELSE Message(1, BodyOf(1), o)]
          /\ dicts = [o \in lobjs \cup robjs |-> NewFlags]
          /\ leftDriver = SelectSeq(<<1, 7, 9>>, LAMBDA o : o \in lobjs)
          /\ rightDriver = SelectSeq(<<2, 8>>, LAMBDA o : o \in robjs)
    /\ InitCommon

SpecNone == InitNone /\ [][Next]_vars

----------------------------------------------------------------------------
(* C13 *)

\* The bodies of the records of a store that have no uid yet.
NewIn(vs) == {vs[i].body : i \in {k \in DOMAIN vs : vs[k].uid = None}}

Copies(vs, b) == Cardinality({k \in DOMAIN vs : vs[k].body = b})

AssignedIn(vs, b) == \E j \in DOMAIN vs : vs[j].body = b /\ vs[j].uid # None

\* C13: a record without uid in one store is, after one run, in the peer's
\* store with a uid, and a further run adds no copy of it to either store.
C13_CreationPropagates ==
    /\ AfterFirstRun =>
          /\ \A b \in NewIn(begun.left) : AssignedIn(RightVals, b)
          /\ \A b \in NewIn(begun.right) : AssignedIn(LeftVals, b)
    /\ (AtRunEnd /\ cycles = 2 /\ edits = 0) =>
          \A b \in NewIn(begun.left) \cup NewIn(begun.right) :
              /\ Copies(LeftVals, b) <= Copies(begun.left, b)
              /\ Copies(RightVals, b) <= Copies(begun.right, b)

----------------------------------------------------------------------------
(* C14 *)

Stores == <<leftDriver, rightDriver, leftState, rightState>>

\* update(a) and then update(b) on a list of messages.
updateTwice(h, messages, a, b) ==
    LET first == update(h, messages, a)
    IN update(first.heap, first.messages, b)

\* C14: applying two distinct records without uid to a store that holds
\* neither leaves both in it, after the records it held.
C14_NoneNeverEqual ==
    \A s \in DOMAIN Stores : \A a, b \in DOMAIN heap :
        (/\ a # b
         /\ heap[a].uid = None
         /\ heap[b].uid = None
         /\ a \notin Range(Stores[s])
         /\ b \notin Range(Stores[s])) =>
            LET r == updateTwice(heap, Stores[s], a, b)
            IN Vals(r.heap, dicts, r.messages)
                 = Vals(heap, dicts, Stores[s])
                     \o <<Val(heap, dicts, a), Val(heap, dicts, b)>>

----------------------------------------------------------------------------
(* A driver whose update raises *)

\* StateController.update when self.driver.update(theirMessages[k]) raises:
\* the messages before k went to the driver and to their state backend, the
\* except clause re-raises, and the loop ends there.
StateController_updateRaising(h, driver, theirState, theirMessages, k) ==
    StateController_update(h, driver, theirState, SubSeq(theirMessages, 1, k - 1), 1)

\* self.left.update(rightMessages) raises on its k-th message.
RunUpdateLeftRaises ==
    \E k \in DOMAIN LocalRight :
        LET u == StateController_updateRaising(heap, leftDriver, rightState, LocalRight, k)
        IN Call("left.update", u.heap, u.driver, rightDriver, leftState, u.theirState,
                LocalLeft, LocalRight, TRUE)

\* self.right.update(leftMessages) raises on its k-th message.
RunUpdateRightRaises ==
    \E k \in DOMAIN LocalLeft :
        LET u == StateController_updateRaising(heap, rightDriver, leftState, LocalLeft, k)
        IN Call("right.update", u.heap, leftDriver, u.driver, u.theirState, rightState,
                LocalLeft, LocalRight, TRUE)

NextRaising ==
    \/ RunGetChangesLeft
    \/ RunGetChangesRight
    \/ RunUpdateLeft
    \/ RunUpdateRight
    \/ RunUpdateLeftRaises
    \/ RunUpdateRightRaises
    \/ markImportant
    \/ markRead
    \/ unmarkImportant
    \/ unmarkRead
    \/ remove

SpecRaising == InitMain /\ [][NextRaising]_vars

----------------------------------------------------------------------------
(* C15 *)

\* This step is an update call of the run that raises.
UpdateRaises == ~failed /\ failed' /\ calls'[Len(calls')] \in UpdateCalls

\* C15: when an update call raises, whatever the message it fails on, both
\* state backends hold what they held before the call.
C15_FailedApplyKeepsBaselines ==
    [][UpdateRaises =>
          /\ Vals(heap', dicts', leftState') = LeftStateVals
          /\ Vals(heap', dicts', rightState') = RightStateVals]_vars

----------------------------------------------------------------------------
(* C16 *)

StateOf(side) == IF side = "left" THEN leftState ELSE rightState

\* getChanges() of a side's StateController, called in the current state.
Again(side) ==
    getChanges(heap, dicts, DriverOf(side), StateOf(side), StateOf(Other(side)))

\* The getChanges call of that side is the last call the run made.
LastCall(side) ==
    pc = (IF side = "left" THEN 1 ELSE 2)

DeltaOf(side) == IF side = "left" THEN leftMessages ELSE rightMessages

\* C16 as stated: when getChanges has just returned, calling it again on the
\* same StateController returns an empty delta.
C16_SecondIsEmpty ==
    \A side \in Sides :
        (LastCall(side) /\ ~failed) =>
            /\ ~Again(side).raised
            /\ Again(side).changedMessages = <<>>

\* C16, amended: when getChanges has just been called, calling it again on
\* the same StateController, with no store mutation and no update in
\* between, returns the delta the first call returned (the same records in
\* the same order, empty exactly when the first was), leaves the state list
\* as the first call left it, and raises exactly when the first call raised.
C16_SecondIsSame ==
    \A side \in Sides :
        LastCall(side) =>
            LET second == Again(side)
            IN /\ second.raised = failed
               /\ second.state = StateOf(side)
               /\ ~failed => second.changedMessages = DeltaOf(side)

\* In a run that follows another, left.getChanges has just returned a delta
\* that is not empty.
C16_Witness ==
    /\ pc = 1
    /\ ~failed
    /\ cycles >= 1
    /\ leftMessages # <<>>

----------------------------------------------------------------------------
(* C17 *)

\* What Storage.update(m) is to make of a list of records: m appended when
\* its uid is unknown, else the record of that uid overwritten where it is.
Updated(before, m) ==
    IF m.uid \notin SnapUids(before) THEN Append(before, m)
    ELSE [i \in DOMAIN before |-> IF before[i].uid = m.uid THEN m ELSE before[i]]

\* C17: on a list without duplicate uids, update(m) appends m when its uid
\* is unknown and else gives the record of that uid the body and flags of m
\* at its position; the other records and their order are kept.  Checked for
\* every message m of a computed delta on every driver and state backend.
C17_UpdateFrame ==
    \A s \in DOMAIN Stores :
        NoDuplicates(heap, Stores[s]) =>
            LET before == Vals(heap, dicts, Stores[s])
            IN \A m \in Range(leftMessages) \cup Range(rightMessages) :
                  LET r == update(heap, Stores[s], m)
                  IN Vals(r.heap, dicts, r.messages)
                       = Updated(before, Val(heap, dicts, m))

\* left.update has returned: it appended a record to the left store and
\* overwrote the body of another where it was.
C17_Witness ==
    /\ ~failed
    /\ pc = 3
    /\ Len(leftDriver) > Len(begun.left)
    /\ \E i \in DOMAIN begun.left :
          /\ LeftVals[i].uid = begun.left[i].uid
          /\ LeftVals[i].body # begun.left[i].body

----------------------------------------------------------------------------
(* C18 *)

\* C18: from stores without duplicate uids, no driver and no state backend
\* ever holds two records of the same uid, whatever the runs, flag changes
\* and removals.
C18_UniqueUids == \A s \in DOMAIN Stores : NoDuplicates(heap, Stores[s])

\* Two runs have returned, the user has changed the stores in between, a
\* synchronised record was removed, and each list holds several records.
C18_Witness ==
    /\ AtRunEnd
    /\ cycles >= 2
    /\ edits = MaxEdits
    /\ deleted # {}
    /\ \A s \in DOMAIN Stores : Len(Stores[s]) >= 2

----------------------------------------------------------------------------
(* C19 *)

\* C19: a delta returned by getChanges, on a store and state backends
\* without duplicate uids, holds each uid at most once.
C19_DeltaUniqueUids ==
    (~failed /\ pc \in {1, 2} /\ C18_UniqueUids) =>
        /\ NoDuplicates(heap, leftMessages)
        /\ NoDuplicates(heap, rightMessages)

----------------------------------------------------------------------------
(* C20 *)

\* This step is a call of Engine.run.
RunStep == calls' # calls

====
